---- MODULE Spec2Model ----
(***************************************************************************)
(* Wilson-style maze generator of maze-game (src/index.ts): the            *)
(* WilsonMaze constructor, generateMaze, randomWalk and the coordinate     *)
(* helpers, as a state machine whose steps are the random draws, and the   *)
(* server callbacks that build and replace the current maze.               *)
(*                                                                         *)
(*   Spec          one call of `new WilsonMaze(width, height)`             *)
(*   FairSpec      the same call with fair random draws                    *)
(*   SpecExplicit  the same call with startPos and goalPos passed          *)
(*   SpecVariants  the same call in both revisions of the generator        *)
(*                 (src/index.ts and class Maze of src/unnamed/part_001)   *)
(*   SpecSeed      a call whose random values are recorded, then a second  *)
(*                 call that is given the same values                      *)
(*   SpecApp       the server: module load, startServer, onPlayerJoin,     *)
(*                 onTick, onBlockCollision and /generate                  *)
(*   SpecChat      the server with several players who join, leave, reach  *)
(*                 the goal and give /generate commands                    *)
(*   SpecHash      a walk record that is given the hash keys of two cells  *)
(***************************************************************************)
EXTENDS Integers, FiniteSets, Sequences, TLC

\* ------------------------------------------------------------------ bounds
\* Requested dimensions are drawn from -MaxBelowZero .. MaxDim.
MaxBelowZero == 2
MaxDim == 6

\* FairSpec: requested dimensions are drawn from 1 .. MaxFairDim.
MaxFairDim == 5

\* SpecApp: the maze built at module load is AppInitDim by AppInitDim (the
\* source builds 15 by 15), and the arguments of /generate are drawn from
\* -MaxBelowZero .. MaxAppDim.
AppInitDim == 4
MaxAppDim == 4

\* SpecExplicit: requested dimensions are drawn from 3 .. MaxExplicitDim and
\* the explicit start and goal from the cells of the grid.
MaxExplicitDim == 4

\* SpecSeed: requested dimensions are drawn from 3 .. MaxSeedDim and a
\* recorded run draws at most MaxDraws random values.
MaxSeedDim == 4
MaxDraws == 10

\* SpecChat: the players 1 .. MaxPlayers may connect, and the arguments of
\* /generate are a width of -1 or 3 and a height in 3 .. MaxChatDim.
MaxPlayers == 2
MaxChatDim == 4

\* SpecHash: coordinates are drawn from MaxHashSpan + 1 consecutive values
\* at 0, at 2^8 - 1, at 2^15 - 1 and below 2^16.
MaxHashSpan == 1

\* ------------------------------------------------------- program constants
Solid == 0
Empty == 1

Up == 0
Down == 1
Left == 2
Right == 3

Direction == {Up, Down, Left, Right}

BLOCK_TYPE_FLOOR == 1
BLOCK_TYPE_START == 2
BLOCK_TYPE_GOAL == 3
BLOCK_TYPE_WALL == 4
BLOCK_TYPE_VISITED == 5

\* What JavaScript yields for a missing array element or map entry.
Undefined == -1

VARIABLES
    pc,                      \* position inside `new WilsonMaze(w, h)`, or "idle"
    reqWidth, reqHeight,     \* the constructor's arguments width, height
    startPos, goalPos,       \* its optional arguments: << >> or <<vector>>
    variant,                 \* the revision of the generator that runs
    width, height,           \* this.width, this.height
    cells,                   \* this.cells: index -> CellType (partial)
    startIndex, goalIndex,   \* this.startIndex, this.goalIndex
    unvisitedIntersections,  \* local of generateMaze
    start,                   \* local of generateMaze: the walk's first cell
    path,                    \* the walk record: hash key -> Direction
    curr,                    \* cursor of randomWalk, then of the replay
    caller,                  \* who runs the constructor: module load or /generate
    currentMaze,             \* module variable currentMaze
    playerInGoal,            \* module variable playerInGoal
    world,                   \* blocks of the world's chunk lattice
    entityPos,               \* connected player -> cell of the player's entity
    cmdPlayer,               \* the player whose /generate command is handled
    congratulated,           \* the players sent the congratulation message
                             \* since the last /generate command, in order
    seedMode,                \* how Math.random is observed: off, record, replay
    tape,                    \* the values Math.random has returned
    seedPos,                 \* index of the next value of the tape
    firstRun                 \* the maze of the recorded run

argVars == <<reqWidth, reqHeight, startPos, goalPos, variant>>

appVars == <<caller, currentMaze, playerInGoal, world, entityPos, cmdPlayer,
            congratulated>>

seedVars == <<seedMode, tape, seedPos, firstRun>>

vars == <<pc, reqWidth, reqHeight, startPos, goalPos, variant, width, height,
          cells, startIndex, goalIndex, unvisitedIntersections, start, path,
          curr, caller, currentMaze, playerInGoal, world, entityPos,
          cmdPlayer, congratulated, seedMode, tape, seedPos, firstRun>>

\* --------------------------------------------------------------- helpers
Vec(x, z) == [x |-> x, z |-> z]

NoVec == Vec(0, 0)

Abs(n) == IF n < 0 THEN -n ELSE n

\* JavaScript's % : the remainder takes the sign of the dividend.
JsRem(a, b) ==
    IF a >= 0 THEN a % Abs(b) ELSE -((-a) % Abs(b))

\* Math.floor(a / b) for b # 0
FloorDiv(a, b) ==
    IF b > 0 THEN a \div b ELSE (-a) \div (-b)

\* stepIn with the scale ignored: every step is two tiles long.
stepIn_IgnoreScale(pos, dir, scale) ==
    CASE dir = Up    -> Vec(pos.x, pos.z - 2)
      [] dir = Down  -> Vec(pos.x, pos.z + 2)
      [] dir = Left  -> Vec(pos.x - 2, pos.z)
      [] dir = Right -> Vec(pos.x + 2, pos.z)

stepIn(pos, dir, scale) ==
    CASE dir = Up    -> Vec(pos.x, pos.z - scale)
      [] dir = Down  -> Vec(pos.x, pos.z + scale)
      [] dir = Left  -> Vec(pos.x - scale, pos.z)
      [] dir = Right -> Vec(pos.x + scale, pos.z)

\* hash with the masks one byte wide: 0xFF for 0xFFFF.
hash_ByteMask(vec) ==
    LET hi == vec.x % 256
        lo == vec.z % 256
    IN  hi * 65536 + lo

\* ((x & 0xFFFF) << 16) | (z & 0xFFFF), a signed 32-bit result.
hash(vec) ==
    LET hi == vec.x % 65536
        lo == vec.z % 65536
    IN  IF hi >= 32768 THEN (hi - 65536) * 65536 + lo
                       ELSE hi * 65536 + lo

\* The parity test inverted: odd values are incremented.
Normalize_OddUp(n) ==
    n + (IF JsRem(n, 2) = 0 THEN 0 ELSE 1)

\* width + (width % 2 == 0 ? 1 : 0)
Normalize(n) ==
    n + (IF JsRem(n, 2) = 0 THEN 1 ELSE 0)

linearize(w, x, z) == z * w + x

\* delinearize with the two coordinates exchanged.
delinearize_Swapped(w, index) ==
    Vec(FloorDiv(index, w), JsRem(index, w))

delinearize(w, index) ==
    Vec(JsRem(index, w), FloorDiv(index, w))

\* this.cells[this.linearize(x, z)], Undefined outside the array's entries
getCellType(cs, w, x, z) ==
    IF linearize(w, x, z) \in DOMAIN cs THEN cs[linearize(w, x, z)]
                                       ELSE Undefined

\* setCellType with the coordinates exchanged in the index.
setCellType_Swapped(cs, w, x, z, cellType) ==
    [i \in DOMAIN cs \cup {linearize(w, z, x)} |->
        IF i = linearize(w, z, x) THEN cellType ELSE cs[i]]

\* this.cells[this.linearize(x, z)] = cellType; a write past the end of
\* a JavaScript array adds the entry.
setCellType(cs, w, x, z, cellType) ==
    [i \in DOMAIN cs \cup {linearize(w, x, z)} |->
        IF i = linearize(w, x, z) THEN cellType ELSE cs[i]]

\* A record that keeps the first direction of a cell (no overwrite).
MapSet_KeepFirst(m, key, dir) ==
    [k \in DOMAIN m \cup {key} |-> IF k \in DOMAIN m THEN m[k] ELSE dir]

\* path.set(key, dir)
MapSet(m, key, dir) ==
    [k \in DOMAIN m \cup {key} |-> IF k = key THEN dir ELSE m[k]]

\* path.get(key)
MapGet(m, key) ==
    IF key \in DOMAIN m THEN m[key] ELSE Undefined

EmptyMap == [k \in {} |-> Up]

\* The counter without the pre-visited start cell taken off.
InitialUnvisited_NoStart(w, h) ==
    (w \div 2) * (h \div 2)

\* The counter one too low.
InitialUnvisited_OneLess(w, h) ==
    (w \div 2) * (h \div 2) - 2

\* Math.floor(this.width / 2) * Math.floor(this.height / 2) - 1
InitialUnvisited(w, h) ==
    (w \div 2) * (h \div 2) - 1

\* The value of currentMaze while the module's first maze is being built.
NoMaze ==
    [width |-> 0, height |-> 0, cells |-> EmptyMap,
     startIndex |-> 0, goalIndex |-> 0]

\* The callback building walls one block high.
MazeWorldCell_OneHigh(maze, index) ==
    LET pos == delinearize(maze.width, index)
        id == IF index = maze.startIndex THEN BLOCK_TYPE_START
              ELSE IF index = maze.goalIndex THEN BLOCK_TYPE_GOAL
              ELSE BLOCK_TYPE_FLOOR
    IN  (IF maze.cells[index] = Solid
         THEN {<<<<pos.x, 1, pos.z>>, BLOCK_TYPE_WALL>>}
         ELSE {})
        \cup {<<<<pos.x, 0, pos.z>>, id>>}

\* The blocks the forEach callback of the MazeWorld constructor adds for
\* the entry `index` of maze.cells, as <<key, id>> pairs; the key `x,y,z`
\* of this.blocks is kept as <<x, y, z>>.
MazeWorldCell(maze, index) ==
    LET pos == delinearize(maze.width, index)
        id == IF index = maze.startIndex THEN BLOCK_TYPE_START
              ELSE IF index = maze.goalIndex THEN BLOCK_TYPE_GOAL
              ELSE BLOCK_TYPE_FLOOR
    IN  (IF maze.cells[index] = Solid
         THEN {<<<<pos.x, 1, pos.z>>, BLOCK_TYPE_WALL>>,
               <<<<pos.x, 2, pos.z>>, BLOCK_TYPE_WALL>>}
         ELSE {})
        \cup {<<<<pos.x, 0, pos.z>>, id>>}

\* new MazeWorld(maze).blocks.  forEach visits the entries of the array in
\* ascending order (the indices >= 0 that hold a value), and a later
\* addBlock on the same key replaces an earlier one.
MazeWorld(maze) ==
    LET entries == {i \in DOMAIN maze.cells : i >= 0}
        keysOf(i) == {b[1] : b \in MazeWorldCell(maze, i)}
        last(k) == CHOOSE i \in entries :
                      /\ k \in keysOf(i)
                      /\ \A j \in entries : k \in keysOf(j) => j <= i
        idAt(i, k) == (CHOOSE b \in MazeWorldCell(maze, i) : b[1] = k)[2]
    IN  [k \in UNION {keysOf(i) : i \in entries} |-> idAt(last(k), k)]

\* The values of Math.floor(Math.random() * (n - 1) / 2) for a random
\* number in [0, 1).
RandomHalf(n) ==
    IF n - 1 > 0 THEN 0 .. (((n - 1) + 1) \div 2 - 1)
    ELSE IF n - 1 = 0 THEN {0}
    ELSE ((n - 1) \div 2) .. 0

\* The cells randomOddCell can return.
randomOddCell(w, h) ==
    {Vec(2 * i + 1, 2 * j + 1) : i \in RandomHalf(w), j \in RandomHalf(h)}

\* ---------------------------------------------------------------- Init
Init ==
    /\ pc = "new"
    /\ reqWidth \in (-MaxBelowZero) .. MaxDim
    /\ reqHeight \in (-MaxBelowZero) .. MaxDim
    /\ startPos = << >>
    /\ goalPos = << >>
    /\ variant = "index"
    /\ width = 0
    /\ height = 0
    /\ cells = EmptyMap
    /\ startIndex = 0
    /\ goalIndex = 0
    /\ unvisitedIntersections = 0
    /\ start = NoVec
    /\ path = EmptyMap
    /\ curr = NoVec
    /\ caller = "load"
    /\ currentMaze = NoMaze
    /\ playerInGoal = FALSE
    /\ world = EmptyMap
    /\ entityPos = << >>
    /\ cmdPlayer = 0
    /\ congratulated = << >>
    /\ seedMode = "off"
    /\ tape = << >>
    /\ seedPos = 1
    /\ firstRun = NoMaze

\* ------------------------------------------------------------- actions
\* The values Math.floor makes of one or two calls of Math.random, in
\* the order of the calls.  A recorded run appends them to the tape (up to
\* MaxDraws values); a replayed run draws what the tape holds.
Random(values) ==
    CASE seedMode = "off" ->
            UNCHANGED <<tape, seedPos>>
      [] seedMode = "record" ->
            /\ Len(tape) + Len(values) <= MaxDraws
            /\ tape' = tape \o values
            /\ seedPos' = seedPos + Len(values)
      [] seedMode = "replay" ->
            /\ seedPos + Len(values) - 1 <= Len(tape)
            /\ SubSeq(tape, seedPos, seedPos + Len(values) - 1) = values
            /\ seedPos' = seedPos + Len(values)
            /\ UNCHANGED tape

\* The constructor with one cell array shared by all instances: the array
\* it fills is also the one currentMaze.cells refers to.
Construct_SharedCells ==
    /\ pc = "new"
    /\ LET w == Normalize(reqWidth)
           h == Normalize(reqHeight)
           grid == {linearize(w, x, z) : x \in 0 .. (w - 1), z \in 0 .. (h - 1)}
           si == linearize(w, 1, 1)
       IN  /\ width' = w
           /\ height' = h
           /\ startIndex' = si
           /\ goalIndex' = linearize(w, w - 2, h - 2)
           /\ IF w * h < 0
              THEN /\ pc' = "error"
                   /\ UNCHANGED <<cells, unvisitedIntersections, currentMaze>>
              ELSE /\ cells' = [i \in grid \cup {si} |->
                                   IF i = si THEN Empty ELSE Solid]
                   /\ currentMaze' = [currentMaze EXCEPT !.cells = cells']
                   /\ unvisitedIntersections' = InitialUnvisited(w, h)
                   /\ pc' = "outer"
    /\ UNCHANGED <<start, path, curr, caller, playerInGoal, world, entityPos,
                   cmdPlayer, congratulated>>
    /\ UNCHANGED <<argVars, seedVars>>

\* The constructor's body up to the first test of generateMaze's loop.
\* new Array(n) throws a RangeError for a negative n.
Construct ==
    /\ pc = "new"
    /\ LET w == Normalize(reqWidth)
           h == Normalize(reqHeight)
           grid == {linearize(w, x, z) : x \in 0 .. (w - 1), z \in 0 .. (h - 1)}
           s == IF startPos = << >> THEN Vec(1, 1) ELSE startPos[1]
           g == IF goalPos = << >> THEN Vec(w - 2, h - 2) ELSE goalPos[1]
           si == linearize(w, s.x, s.z)
           gi == linearize(w, g.x, g.z)
       IN  /\ width' = w
           /\ height' = h
           /\ startIndex' = si
           /\ goalIndex' = gi
           /\ IF w * h < 0
              THEN /\ pc' = "error"
                   /\ UNCHANGED <<cells, unvisitedIntersections>>
              ELSE /\ cells' = [i \in grid \cup {si} |->
                                   IF i = si THEN Empty ELSE Solid]
                   /\ unvisitedIntersections' = InitialUnvisited(w, h)
                   /\ pc' = "outer"
    /\ UNCHANGED <<start, path, curr>>
    /\ UNCHANGED <<argVars, appVars, seedVars>>

\* randomOddCell drawing from a random source of its own, which the seed
\* does not reach.
PickStart_Unseeded ==
    /\ pc = "outer"
    /\ variant = "index"
    /\ unvisitedIntersections > 0
    /\ \E c \in randomOddCell(width, height) :
          /\ start' = c
          /\ curr' = c
    /\ path' = EmptyMap
    /\ pc' = "walk"
    /\ UNCHANGED <<width, height, cells, startIndex, goalIndex,
                   unvisitedIntersections>>
    /\ UNCHANGED <<argVars, appVars, seedVars>>

\* The walk record made once for all walks instead of by each call of
\* randomWalk: a new walk starts with the record of the walk before it.
PickStart_KeepsRecord ==
    /\ pc = "outer"
    /\ variant = "index"
    /\ unvisitedIntersections > 0
    /\ \E c \in randomOddCell(width, height) :
          /\ Random(<<(c.x - 1) \div 2, (c.z - 1) \div 2>>)
          /\ start' = c
          /\ curr' = c
    /\ pc' = "walk"
    /\ UNCHANGED <<width, height, cells, startIndex, goalIndex,
                   unvisitedIntersections, path>>
    /\ UNCHANGED <<argVars, appVars, seedMode, firstRun>>

\* One pass of `while (unvisitedIntersections > 0)`: draw the walk's first
\* cell and enter randomWalk, which makes a new record.
PickStart ==
    /\ pc = "outer"
    /\ variant = "index"
    /\ unvisitedIntersections > 0
    /\ \E c \in randomOddCell(width, height) :
          /\ Random(<<(c.x - 1) \div 2, (c.z - 1) \div 2>>)
          /\ start' = c
          /\ curr' = c
    /\ path' = EmptyMap
    /\ pc' = "walk"
    /\ UNCHANGED <<width, height, cells, startIndex, goalIndex,
                   unvisitedIntersections>>
    /\ UNCHANGED <<argVars, appVars, seedMode, firstRun>>

\* randomWalk's loop test fails: the walk returns its record and the
\* replay starts at `start`.
WalkExit ==
    /\ pc = "walk"
    /\ getCellType(cells, width, curr.x, curr.z) # Solid
    /\ curr' = start
    /\ pc' = "replay"
    /\ UNCHANGED <<width, height, cells, startIndex, goalIndex,
                   unvisitedIntersections, start, path>>
    /\ UNCHANGED <<argVars, appVars, seedVars>>

\* randomWalk leaving the loop on a carved target before recording the
\* direction.
WalkStep_BreakFirst(dir) ==
    /\ pc = "walk"
    /\ variant = "index"
    /\ getCellType(cells, width, curr.x, curr.z) = Solid
    /\ Random(<<dir>>)
    /\ LET nextPos == stepIn(curr, dir, 2)
       IN  IF \/ nextPos.x < 0
              \/ nextPos.z < 0
              \/ nextPos.x > width - 1
              \/ nextPos.z > height - 1
           THEN UNCHANGED <<path, curr, pc>>
           ELSE IF getCellType(cells, width, nextPos.x, nextPos.z) # Solid
                THEN /\ curr' = start
                     /\ pc' = "replay"
                     /\ UNCHANGED path
                ELSE /\ path' = MapSet(path, hash(curr), dir)
                     /\ curr' = nextPos
                     /\ pc' = "walk"
    /\ UNCHANGED <<width, height, cells, startIndex, goalIndex,
                   unvisitedIntersections, start>>
    /\ UNCHANGED <<argVars, appVars, seedMode, firstRun>>

\* randomWalk recording the drawn direction before the bounds test.
WalkStep_RecordFirst(dir) ==
    /\ pc = "walk"
    /\ variant = "index"
    /\ getCellType(cells, width, curr.x, curr.z) = Solid
    /\ Random(<<dir>>)
    /\ path' = MapSet(path, hash(curr), dir)
    /\ LET nextPos == stepIn(curr, dir, 2)
       IN  IF \/ nextPos.x < 0
              \/ nextPos.z < 0
              \/ nextPos.x > width - 1
              \/ nextPos.z > height - 1
           THEN UNCHANGED <<curr, pc>>
           ELSE IF getCellType(cells, width, nextPos.x, nextPos.z) # Solid
                THEN /\ curr' = start
                     /\ pc' = "replay"
                ELSE /\ curr' = nextPos
                     /\ pc' = "walk"
    /\ UNCHANGED <<width, height, cells, startIndex, goalIndex,
                   unvisitedIntersections, start>>
    /\ UNCHANGED <<argVars, appVars, seedMode, firstRun>>

\* randomWalk with the upper bounds one too far: `> this.width` for
\* `> this.width - 1`.
WalkStep_LooseBounds(dir) ==
    /\ pc = "walk"
    /\ variant = "index"
    /\ getCellType(cells, width, curr.x, curr.z) = Solid
    /\ Random(<<dir>>)
    /\ LET nextPos == stepIn(curr, dir, 2)
       IN  IF \/ nextPos.x < 0
              \/ nextPos.z < 0
              \/ nextPos.x > width
              \/ nextPos.z > height
           THEN UNCHANGED <<path, curr, pc>>
           ELSE /\ path' = MapSet(path, hash(curr), dir)
                /\ IF getCellType(cells, width, nextPos.x, nextPos.z) # Solid
                   THEN /\ curr' = start
                        /\ pc' = "replay"
                   ELSE /\ curr' = nextPos
                        /\ pc' = "walk"
    /\ UNCHANGED <<width, height, cells, startIndex, goalIndex,
                   unvisitedIntersections, start>>
    /\ UNCHANGED <<argVars, appVars, seedMode, firstRun>>

\* One iteration of randomWalk's loop with the drawn direction dir.
WalkStep(dir) ==
    /\ pc = "walk"
    /\ variant = "index"
    /\ getCellType(cells, width, curr.x, curr.z) = Solid
    /\ Random(<<dir>>)
    /\ LET nextPos == stepIn(curr, dir, 2)
       IN  IF \/ nextPos.x < 0
              \/ nextPos.z < 0
              \/ nextPos.x > width - 1
              \/ nextPos.z > height - 1
           THEN UNCHANGED <<path, curr, pc>>
           ELSE /\ path' = MapSet(path, hash(curr), dir)
                /\ IF getCellType(cells, width, nextPos.x, nextPos.z) # Solid
                   THEN /\ curr' = start
                        /\ pc' = "replay"
                   ELSE /\ curr' = nextPos
                        /\ pc' = "walk"
    /\ UNCHANGED <<width, height, cells, startIndex, goalIndex,
                   unvisitedIntersections, start>>
    /\ UNCHANGED <<argVars, appVars, seedMode, firstRun>>

\* One iteration of the replay loop of generateMaze.  A missing record
\* makes stepIn return undefined and `between.x` throw a TypeError.
ReplayStep ==
    /\ pc = "replay"
    /\ variant = "index"
    /\ getCellType(cells, width, curr.x, curr.z) = Solid
    /\ LET carved == setCellType(cells, width, curr.x, curr.z, Empty)
           dir == MapGet(path, hash(curr))
       IN  IF dir = Undefined
           THEN /\ cells' = carved
                /\ pc' = "error"
                /\ UNCHANGED <<curr, unvisitedIntersections>>
           ELSE LET between == stepIn(curr, dir, 1)
                IN  /\ cells' = setCellType(carved, width,
                                            between.x, between.z, Empty)
                    /\ curr' = stepIn(curr, dir, 2)
                    /\ unvisitedIntersections' = unvisitedIntersections - 1
                    /\ pc' = "replay"
    /\ UNCHANGED <<width, height, startIndex, goalIndex, start, path>>
    /\ UNCHANGED <<argVars, appVars, seedVars>>

\* The replay loop's test fails: back to the outer loop's test.
ReplayExit ==
    /\ pc = "replay"
    /\ getCellType(cells, width, curr.x, curr.z) # Solid
    /\ pc' = "outer"
    /\ UNCHANGED <<width, height, cells, startIndex, goalIndex,
                   unvisitedIntersections, start, path, curr>>
    /\ UNCHANGED <<argVars, appVars, seedVars>>

\* generateMaze's loop test fails: the constructor returns the maze.  The
\* walk record and the cursors of the last iteration go out of scope.
Return ==
    /\ pc = "outer"
    /\ unvisitedIntersections <= 0
    /\ start' = NoVec
    /\ path' = EmptyMap
    /\ curr' = NoVec
    /\ pc' = "done"
    /\ UNCHANGED <<width, height, cells, startIndex, goalIndex,
                   unvisitedIntersections>>
    /\ UNCHANGED <<argVars, appVars, seedVars>>

\* ---- the earlier revision of the generator (class Maze of part_001), which
\* shares the constructor's body, the loop tests and the return above.

\* offset(pos, dir, scale)
offset(pos, dir, scale) ==
    CASE dir = Up    -> Vec(pos.x, pos.z - scale)
      [] dir = Down  -> Vec(pos.x, pos.z + scale)
      [] dir = Left  -> Vec(pos.x - scale, pos.z)
      [] dir = Right -> Vec(pos.x + scale, pos.z)

\* keyOf(vec): the string `x,z`, kept as the pair <<x, z>>.
keyOf(vec) == <<vec.x, vec.z>>

\* One pass of the outer loop: randomOddCell and the entry of randomWalk.
\* randomOddCell draws x below width and z below height again and again
\* until both are odd; the pairs it rejects have no effect, and <<x, z>> is
\* the pair it returns.
MazePickStart ==
    /\ pc = "outer"
    /\ variant = "part_001"
    /\ unvisitedIntersections > 0
    /\ \E x \in 0 .. (width - 1), z \in 0 .. (height - 1) :
          /\ x % 2 = 1
          /\ z % 2 = 1
          /\ Random(<<x, z>>)
          /\ start' = Vec(x, z)
          /\ curr' = Vec(x, z)
    /\ path' = EmptyMap
    /\ pc' = "walk"
    /\ UNCHANGED <<width, height, cells, startIndex, goalIndex,
                   unvisitedIntersections>>
    /\ UNCHANGED <<argVars, appVars, seedMode, firstRun>>

\* One iteration of randomWalk's loop with the drawn direction dir.
MazeWalkStep(dir) ==
    /\ pc = "walk"
    /\ variant = "part_001"
    /\ getCellType(cells, width, curr.x, curr.z) = Solid
    /\ Random(<<dir>>)
    /\ LET nextPos == offset(curr, dir, 2)
       IN  IF \/ nextPos.x < 0
              \/ nextPos.z < 0
              \/ nextPos.x > width - 1
              \/ nextPos.z > height - 1
           THEN UNCHANGED <<path, curr, pc>>
           ELSE IF getCellType(cells, width, nextPos.x, nextPos.z) = Solid
                THEN /\ path' = MapSet(path, keyOf(curr), dir)
                     /\ curr' = nextPos
                     /\ pc' = "walk"
                ELSE /\ path' = MapSet(path, keyOf(curr), dir)
                     /\ curr' = start
                     /\ pc' = "replay"
    /\ UNCHANGED <<width, height, cells, startIndex, goalIndex,
                   unvisitedIntersections, start>>
    /\ UNCHANGED <<argVars, appVars, seedMode, firstRun>>

\* One iteration of the replay loop of generateMaze.
MazeReplayStep ==
    /\ pc = "replay"
    /\ variant = "part_001"
    /\ getCellType(cells, width, curr.x, curr.z) = Solid
    /\ LET carved == setCellType(cells, width, curr.x, curr.z, Empty)
           dir == MapGet(path, keyOf(curr))
       IN  IF dir = Undefined
           THEN /\ cells' = carved
                /\ pc' = "error"
                /\ UNCHANGED <<curr, unvisitedIntersections>>
           ELSE LET between == offset(curr, dir, 1)
                IN  /\ cells' = setCellType(carved, width,
                                            between.x, between.z, Empty)
                    /\ curr' = offset(curr, dir, 2)
                    /\ unvisitedIntersections' = unvisitedIntersections - 1
                    /\ pc' = "replay"
    /\ UNCHANGED <<width, height, startIndex, goalIndex, start, path>>
    /\ UNCHANGED <<argVars, appVars, seedVars>>

\* The object the constructor has built.
ThisMaze ==
    [width |-> width, height |-> height, cells |-> cells,
     startIndex |-> startIndex, goalIndex |-> goalIndex]

\* The chunk of the lattice a block coordinate lies in: chunks are cubes of
\* 16 blocks.
chunkOf(coordinate) ==
    <<FloorDiv(coordinate[1], 16), FloorDiv(coordinate[2], 16),
      FloorDiv(coordinate[3], 16)>>

\* world.chunkLattice.getAllChunks()
getAllChunks(blocks) == {chunkOf(k) : k \in DOMAIN blocks}

\* getAllChunks().forEach((chunk) => chunk.despawn()): the blocks that are
\* left when every chunk of the list has been taken out of the lattice.
despawnAll(blocks) ==
    [k \in {c \in DOMAIN blocks : chunkOf(c) \notin getAllChunks(blocks)} |->
        blocks[k]]

\* world.loadMap(map): every block of the map is set in the lattice; a block
\* the map does not name stays as it is.
loadMap(blocks, map) ==
    [k \in DOMAIN blocks \cup DOMAIN map |->
        IF k \in DOMAIN map THEN map[k] ELSE blocks[k]]

\* Module load after `new WilsonMaze(..)` has returned: currentMaze is set,
\* playerInGoal is false, and the startServer callback loads the map.
StartServer ==
    /\ pc = "done"
    /\ caller = "load"
    /\ currentMaze' = ThisMaze
    /\ playerInGoal' = FALSE
    /\ world' = loadMap(world, MazeWorld(ThisMaze))
    /\ pc' = "idle"
    /\ UNCHANGED <<width, height, cells, startIndex, goalIndex,
                   unvisitedIntersections, start, path, curr, caller,
                   entityPos, cmdPlayer, congratulated>>
    /\ UNCHANGED <<argVars, seedVars>>

\* The /generate handler up to the constructor call, for the command of
\* the connected player p with the parsed arguments w and h: a fresh object
\* enters the constructor.
\* (src/index.ts line 407 names the interface Maze where the later
\* revision of the handler names WilsonMaze; the handler is modelled with
\* the class.)
GenerateCmd(p, w, h) ==
    /\ pc = "idle"
    /\ p \in DOMAIN entityPos
    /\ cmdPlayer' = p
    /\ congratulated' = << >>
    /\ reqWidth' = w
    /\ reqHeight' = h
    /\ startPos' = << >>
    /\ goalPos' = << >>
    /\ width' = 0
    /\ height' = 0
    /\ cells' = EmptyMap
    /\ startIndex' = 0
    /\ goalIndex' = 0
    /\ unvisitedIntersections' = 0
    /\ start' = NoVec
    /\ path' = EmptyMap
    /\ curr' = NoVec
    /\ caller' = "generate"
    /\ pc' = "new"
    /\ UNCHANGED <<currentMaze, playerInGoal, world, entityPos, variant>>
    /\ UNCHANGED seedVars

\* The handler without the despawn of the old chunks.
GenerateFinish_NoDespawn ==
    /\ pc = "done"
    /\ caller = "generate"
    /\ currentMaze' = ThisMaze
    /\ playerInGoal' = FALSE
    /\ entityPos' = [q \in DOMAIN entityPos |->
                        IF q = cmdPlayer THEN delinearize(width, startIndex)
                                         ELSE entityPos[q]]
    /\ world' = loadMap(world, MazeWorld(ThisMaze))
    /\ pc' = "idle"
    /\ UNCHANGED <<width, height, cells, startIndex, goalIndex,
                   unvisitedIntersections, start, path, curr, caller,
                   cmdPlayer, congratulated>>
    /\ UNCHANGED <<argVars, seedVars>>

\* The rest of the /generate handler once the constructor has returned:
\* currentMaze and playerInGoal are assigned, the entity of the player who
\* gave the command is moved to the new start, every chunk is despawned and
\* then the new map is loaded.
GenerateFinish ==
    /\ pc = "done"
    /\ caller = "generate"
    /\ currentMaze' = ThisMaze
    /\ playerInGoal' = FALSE
    /\ entityPos' = [q \in DOMAIN entityPos |->
                        IF q = cmdPlayer THEN delinearize(width, startIndex)
                                         ELSE entityPos[q]]
    /\ world' = loadMap(despawnAll(world), MazeWorld(ThisMaze))
    /\ pc' = "idle"
    /\ UNCHANGED <<width, height, cells, startIndex, goalIndex,
                   unvisitedIntersections, start, path, curr, caller,
                   cmdPlayer, congratulated>>
    /\ UNCHANGED <<argVars, seedVars>>

\* The constructor threw inside the /generate handler: the assignment to
\* currentMaze and the statements after it are not executed, and the
\* server goes on with the state it had.
GenerateThrow ==
    /\ pc = "error"
    /\ caller = "generate"
    /\ pc' = "idle"
    /\ UNCHANGED <<width, height, cells, startIndex, goalIndex,
                   unvisitedIntersections, start, path, curr>>
    /\ UNCHANGED <<argVars, appVars, seedVars>>

\* The callback without the test of playerInGoal.
OnBlockCollision_NoFlagTest(p, id, started) ==
    /\ pc = "idle"
    /\ p \in DOMAIN entityPos
    /\ \E k \in DOMAIN world : world[k] = id
    /\ IF ~started \/ id # BLOCK_TYPE_GOAL
       THEN UNCHANGED <<playerInGoal, congratulated>>
       ELSE /\ playerInGoal' = TRUE
            /\ congratulated' = Append(congratulated, p)
    /\ UNCHANGED <<pc, width, height, cells, startIndex, goalIndex,
                   unvisitedIntersections, start, path, curr, caller,
                   currentMaze, world, entityPos, cmdPlayer>>
    /\ UNCHANGED <<argVars, seedVars>>

\* playerEntity.onBlockCollision of the entity of the connected player p,
\* for a block type that is in the world.
OnBlockCollision(p, id, started) ==
    /\ pc = "idle"
    /\ p \in DOMAIN entityPos
    /\ \E k \in DOMAIN world : world[k] = id
    /\ IF ~started \/ playerInGoal \/ id # BLOCK_TYPE_GOAL
       THEN UNCHANGED <<playerInGoal, congratulated>>
       ELSE /\ playerInGoal' = TRUE
            /\ congratulated' = Append(congratulated, p)
    /\ UNCHANGED <<pc, width, height, cells, startIndex, goalIndex,
                   unvisitedIntersections, start, path, curr, caller,
                   currentMaze, world, entityPos, cmdPlayer>>
    /\ UNCHANGED <<argVars, seedVars>>

\* world.onPlayerJoin for the player p, who is not connected: the player's
\* entity is spawned above the start cell of the current maze.
OnPlayerJoin(p) ==
    /\ pc = "idle"
    /\ p \notin DOMAIN entityPos
    /\ entityPos' = [q \in DOMAIN entityPos \cup {p} |->
                        IF q = p
                        THEN delinearize(currentMaze.width,
                                         currentMaze.startIndex)
                        ELSE entityPos[q]]
    /\ UNCHANGED <<pc, width, height, cells, startIndex, goalIndex,
                   unvisitedIntersections, start, path, curr, caller,
                   currentMaze, playerInGoal, world, cmdPlayer,
                   congratulated>>
    /\ UNCHANGED <<argVars, seedVars>>

\* world.onPlayerLeave for the connected player p: the player's entity is
\* despawned.
OnPlayerLeave(p) ==
    /\ pc = "idle"
    /\ p \in DOMAIN entityPos
    /\ entityPos' = [q \in DOMAIN entityPos \ {p} |-> entityPos[q]]
    /\ UNCHANGED <<pc, width, height, cells, startIndex, goalIndex,
                   unvisitedIntersections, start, path, curr, caller,
                   currentMaze, playerInGoal, world, cmdPlayer,
                   congratulated>>
    /\ UNCHANGED <<argVars, seedVars>>

\* world.chunkLattice.setBlock(coordinate, id)
setBlock(blocks, coordinate, id) ==
    [k \in DOMAIN blocks \cup {coordinate} |->
        IF k = coordinate THEN id ELSE blocks[k]]

\* `a != b` on two objects compares their identity.  The entityPos of
\* onTick is an object literal made in the call, so it differs from the
\* object startPos() or goalPos() returns whatever the coordinates are.
ObjectsDiffer(a, b) == TRUE

\* The cells an entity at cell v can be in one tick later: v, or a
\* neighbour of v that has a floor block and no wall block.
WithinOneTick(v) ==
    {v} \cup {n \in {stepIn(v, dir, 1) : dir \in Direction} :
                 /\ <<n.x, 0, n.z>> \in DOMAIN world
                 /\ <<n.x, 1, n.z>> \notin DOMAIN world}

\* onTick marking the visited cell in the cell array of currentMaze.
OnTick_MarksMaze(p, com) ==
    /\ pc = "idle"
    /\ p \in DOMAIN entityPos
    /\ com \in WithinOneTick(entityPos[p])
    /\ entityPos' = [entityPos EXCEPT ![p] = com]
    /\ currentMaze' =
          [currentMaze EXCEPT !.cells =
              setCellType(@, currentMaze.width, com.x, com.z,
                          BLOCK_TYPE_VISITED)]
    /\ UNCHANGED <<pc, width, height, cells, startIndex, goalIndex,
                   unvisitedIntersections, start, path, curr, caller,
                   playerInGoal, world, cmdPlayer, congratulated>>
    /\ UNCHANGED <<argVars, seedVars>>

\* playerEntity.onTick of the entity of the connected player p, with the
\* entity's centre of mass in the cell com.
OnTick(p, com) ==
    /\ pc = "idle"
    /\ p \in DOMAIN entityPos
    /\ com \in WithinOneTick(entityPos[p])
    /\ entityPos' = [entityPos EXCEPT ![p] = com]
    /\ LET currentStart == delinearize(currentMaze.width,
                                       currentMaze.startIndex)
           currentGoal == delinearize(currentMaze.width,
                                      currentMaze.goalIndex)
       IN  IF /\ ObjectsDiffer(com, currentStart)
              /\ ObjectsDiffer(com, currentGoal)
           THEN world' = setBlock(world, <<com.x, 0, com.z>>,
                                  BLOCK_TYPE_VISITED)
           ELSE UNCHANGED world
    /\ UNCHANGED <<pc, width, height, cells, startIndex, goalIndex,
                   unvisitedIntersections, start, path, curr, caller,
                   currentMaze, playerInGoal, cmdPlayer, congratulated>>
    /\ UNCHANGED <<argVars, seedVars>>

Next ==
    \/ Construct
    \/ PickStart
    \/ WalkExit
    \/ \E dir \in Direction : WalkStep(dir)
    \/ ReplayStep
    \/ ReplayExit
    \/ Return

Spec == Init /\ [][Next]_vars

InitApp ==
    /\ Init
    /\ reqWidth = AppInitDim
    /\ reqHeight = AppInitDim

\* The server with one player, who connects and stays.
NextApp ==
    \/ Next
    \/ StartServer
    \/ \E p \in DOMAIN entityPos :
          \E w, h \in (-MaxBelowZero) .. MaxAppDim : GenerateCmd(p, w, h)
    \/ GenerateFinish
    \/ GenerateThrow
    \/ \E p \in DOMAIN entityPos :
          \E id \in {BLOCK_TYPE_FLOOR, BLOCK_TYPE_START, BLOCK_TYPE_GOAL,
                     BLOCK_TYPE_WALL} :
             \E started \in BOOLEAN : OnBlockCollision(p, id, started)
    \/ OnPlayerJoin(1)
    \/ \E p \in DOMAIN entityPos :
          \E com \in {Vec(x, z) : x, z \in (-1) .. (MaxAppDim + 1)} :
             OnTick(p, com)

SpecApp == InitApp /\ [][NextApp]_vars

\* The server with the players 1 .. MaxPlayers, who join and leave, collide
\* with the start and goal blocks and give /generate commands: for a maze
\* three cells wide (3 by 3 without a goal block, or 3 by 5), or with a
\* width of -1, for which the constructor throws.
NextChat ==
    \/ Next
    \/ StartServer
    \/ \E p \in DOMAIN entityPos :
          \E w \in {-1, 3}, h \in 3 .. MaxChatDim : GenerateCmd(p, w, h)
    \/ GenerateFinish
    \/ GenerateThrow
    \/ \E p \in DOMAIN entityPos :
          \E id \in {BLOCK_TYPE_START, BLOCK_TYPE_GOAL} :
             \E started \in BOOLEAN : OnBlockCollision(p, id, started)
    \/ \E p \in 1 .. MaxPlayers : OnPlayerJoin(p)
    \/ \E p \in DOMAIN entityPos : OnPlayerLeave(p)

SpecChat == InitApp /\ [][NextChat]_vars

\* Both revisions of the generator, for requests in 1 .. MaxDim.
NextVariants ==
    \/ Next
    \/ MazePickStart
    \/ \E dir \in Direction : MazeWalkStep(dir)
    \/ MazeReplayStep

InitVariants ==
    /\ pc = "new"
    /\ reqWidth \in 1 .. MaxDim
    /\ reqHeight \in 1 .. MaxDim
    /\ startPos = << >>
    /\ goalPos = << >>
    /\ variant \in {"index", "part_001"}
    /\ width = 0
    /\ height = 0
    /\ cells = EmptyMap
    /\ startIndex = 0
    /\ goalIndex = 0
    /\ unvisitedIntersections = 0
    /\ start = NoVec
    /\ path = EmptyMap
    /\ curr = NoVec
    /\ caller = "load"
    /\ currentMaze = NoMaze
    /\ playerInGoal = FALSE
    /\ world = EmptyMap
    /\ entityPos = << >>
    /\ cmdPlayer = 0
    /\ congratulated = << >>
    /\ seedMode = "off"
    /\ tape = << >>
    /\ seedPos = 1
    /\ firstRun = NoMaze

SpecVariants == InitVariants /\ [][NextVariants]_vars

\* A run of the constructor that records the values of Math.random,
\* followed by a second run with the same arguments that is given the same
\* values (the same seed).
Rerun ==
    /\ pc = "done"
    /\ seedMode = "record"
    /\ firstRun' = ThisMaze
    /\ seedMode' = "replay"
    /\ seedPos' = 1
    /\ width' = 0
    /\ height' = 0
    /\ cells' = EmptyMap
    /\ startIndex' = 0
    /\ goalIndex' = 0
    /\ unvisitedIntersections' = 0
    /\ pc' = "new"
    /\ UNCHANGED <<start, path, curr, tape>>
    /\ UNCHANGED <<argVars, appVars>>

NextSeed ==
    \/ NextVariants
    \/ Rerun

InitSeed ==
    /\ pc = "new"
    /\ reqWidth \in 3 .. MaxSeedDim
    /\ reqHeight \in 3 .. MaxSeedDim
    /\ startPos = << >>
    /\ goalPos = << >>
    /\ variant \in {"index", "part_001"}
    /\ width = 0
    /\ height = 0
    /\ cells = EmptyMap
    /\ startIndex = 0
    /\ goalIndex = 0
    /\ unvisitedIntersections = 0
    /\ start = NoVec
    /\ path = EmptyMap
    /\ curr = NoVec
    /\ caller = "load"
    /\ currentMaze = NoMaze
    /\ playerInGoal = FALSE
    /\ world = EmptyMap
    /\ entityPos = << >>
    /\ cmdPlayer = 0
    /\ congratulated = << >>
    /\ seedMode = "record"
    /\ tape = << >>
    /\ seedPos = 1
    /\ firstRun = NoMaze

SpecSeed == InitSeed /\ [][NextSeed]_vars

\* `new WilsonMaze(width, height, startPos, goalPos)` with both optional
\* arguments passed, each a cell of the grid.
GridOf(w, h) ==
    {Vec(x, z) : x \in 0 .. (Normalize(w) - 1), z \in 0 .. (Normalize(h) - 1)}

InitExplicit ==
    /\ pc = "new"
    /\ reqWidth \in 3 .. MaxExplicitDim
    /\ reqHeight \in 3 .. MaxExplicitDim
    /\ \E s, g \in GridOf(reqWidth, reqHeight) :
          /\ startPos = <<s>>
          /\ goalPos = <<g>>
    /\ variant = "index"
    /\ width = 0
    /\ height = 0
    /\ cells = EmptyMap
    /\ startIndex = 0
    /\ goalIndex = 0
    /\ unvisitedIntersections = 0
    /\ start = NoVec
    /\ path = EmptyMap
    /\ curr = NoVec
    /\ caller = "load"
    /\ currentMaze = NoMaze
    /\ playerInGoal = FALSE
    /\ world = EmptyMap
    /\ entityPos = << >>
    /\ cmdPlayer = 0
    /\ congratulated = << >>
    /\ seedMode = "off"
    /\ tape = << >>
    /\ seedPos = 1
    /\ firstRun = NoMaze

SpecExplicit == InitExplicit /\ [][Next]_vars

\* A walk record that is given directions for two cells with coordinates
\* in [0, 2^16): path.set(hash(start), dir), then path.set(hash(curr), dir).
HashCoords ==
    UNION {b .. (b + MaxHashSpan) : b \in {0, 255, 32767}}
        \cup ((65535 - MaxHashSpan) .. 65535)

InitHash ==
    /\ pc = "hash"
    /\ reqWidth = 0
    /\ reqHeight = 0
    /\ startPos = << >>
    /\ goalPos = << >>
    /\ variant = "index"
    /\ width = 0
    /\ height = 0
    /\ cells = EmptyMap
    /\ startIndex = 0
    /\ goalIndex = 0
    /\ unvisitedIntersections = 0
    /\ start \in {Vec(x, z) : x, z \in HashCoords}
    /\ path = EmptyMap
    /\ curr \in {Vec(x, z) : x, z \in HashCoords}
    /\ caller = "load"
    /\ currentMaze = NoMaze
    /\ playerInGoal = FALSE
    /\ world = EmptyMap
    /\ entityPos = << >>
    /\ cmdPlayer = 0
    /\ congratulated = << >>
    /\ seedMode = "off"
    /\ tape = << >>
    /\ seedPos = 1
    /\ firstRun = NoMaze

SetFirst(dir) ==
    /\ pc = "hash"
    /\ path' = MapSet(path, hash(start), dir)
    /\ pc' = "hash2"
    /\ UNCHANGED <<width, height, cells, startIndex, goalIndex,
                   unvisitedIntersections, start, curr>>
    /\ UNCHANGED <<argVars, appVars, seedVars>>

SetSecond(dir) ==
    /\ pc = "hash2"
    /\ path' = MapSet(path, hash(curr), dir)
    /\ pc' = "hashed"
    /\ UNCHANGED <<width, height, cells, startIndex, goalIndex,
                   unvisitedIntersections, start, curr>>
    /\ UNCHANGED <<argVars, appVars, seedVars>>

NextHash ==
    \/ \E dir \in Direction : SetFirst(dir)
    \/ \E dir \in Direction : SetSecond(dir)

SpecHash == InitHash /\ [][NextHash]_vars

\* Fair random draws.  Math.random gives every cell and every direction a
\* probability bounded away from 0 at each draw, so an outcome that is
\* possible at infinitely many draws is drawn infinitely often:
\*   - PickSolid: randomOddCell returns a cell that is still Solid;
\*   - WalkToward(k): at k steps from the start cell, randomDir returns a
\*     direction that leads to k - 1 steps from it.
\* The deterministic steps of the constructor are always taken.
InBounds(v) ==
    ~ (v.x < 0 \/ v.z < 0 \/ v.x > width - 1 \/ v.z > height - 1)

Unreachable == MaxFairDim * MaxFairDim

\* Number of walk steps from v to the cell (1, 1), the default start, which
\* is carved from the constructor on.
Dist(v) ==
    IF InBounds(v) THEN (v.x - 1) \div 2 + (v.z - 1) \div 2 ELSE Unreachable

PickSolid ==
    /\ PickStart
    /\ getCellType(cells, width, start'.x, start'.z) = Solid

WalkToward(k) ==
    /\ pc = "walk"
    /\ Dist(curr) = k
    /\ \E dir \in Direction :
          /\ Dist(stepIn(curr, dir, 2)) = k - 1
          /\ WalkStep(dir)

\* The longest distance in the largest grid: (width - 3) / 2 steps along
\* each axis.
MaxDist == 2 * (MaxFairDim \div 2) - 2

Fairness ==
    /\ WF_vars(Construct)
    /\ WF_vars(PickStart)
    /\ WF_vars(WalkExit)
    /\ WF_vars(ReplayStep)
    /\ WF_vars(ReplayExit)
    /\ WF_vars(Return)
    /\ SF_vars(PickSolid)
    /\ \A k \in 1 .. MaxDist : SF_vars(WalkToward(k))

InitFair ==
    /\ Init
    /\ reqWidth \in 1 .. MaxFairDim
    /\ reqHeight \in 1 .. MaxFairDim

FairSpec == InitFair /\ [][Next]_vars /\ Fairness

\* ------------------------------------------------- vocabulary of the claims
ValidRequest == reqWidth >= 1 /\ reqHeight >= 1

InGrid(v) == 0 <= v.x /\ v.x < width /\ 0 <= v.z /\ v.z < height

\* Indices of the entries of this.cells that hold Empty.
EmptyCells == {i \in DOMAIN cells : cells[i] = Empty}

\* Grid adjacency of two cell indices (4-neighbourhood of their coordinates).
Adjacent(i, j) ==
    LET a == delinearize(width, i)
        b == delinearize(width, j)
    IN  Abs(a.x - b.x) + Abs(a.z - b.z) = 1

\* Pairs of adjacent Empty cells, each pair once.
Connections ==
    {e \in EmptyCells \X EmptyCells : e[1] < e[2] /\ Adjacent(e[1], e[2])}

\* Breadth-first closure of a set of Empty cells under adjacency.
RECURSIVE Reach(_)
Reach(S) ==
    LET N == S \cup {j \in EmptyCells : \E i \in S : Adjacent(i, j)}
    IN  IF N = S THEN S ELSE Reach(N)

\* Cells of the grid with both coordinates odd.
Intersections ==
    {v \in {Vec(x, z) : x \in 0 .. (width - 1), z \in 0 .. (height - 1)} :
        v.x % 2 = 1 /\ v.z % 2 = 1}

\* ------------------------------------------------------------------ claims

\* C1: in every maze the constructor returns for a request with width >= 3
\* and height >= 3, a breadth-first traversal from the start cell reaches
\* every Empty cell.
C1_Connected ==
    (pc = "done" /\ reqWidth >= 3 /\ reqHeight >= 3)
        => Reach({startIndex}) = EmptyCells

C1_Witness ==
    /\ pc = "done"
    /\ reqWidth >= 5
    /\ reqHeight >= 5
    /\ Cardinality(EmptyCells) >= 7

\* C2: in every returned maze the number of Empty cells is the number of
\* adjacent Empty-Empty pairs plus one.
C2_Acyclic ==
    pc = "done" => Cardinality(EmptyCells) = Cardinality(Connections) + 1

C2_Witness ==
    /\ pc = "done"
    /\ width >= 5
    /\ height >= 5
    /\ Cardinality(Connections) >= 6

\* C3: when generateMaze returns for a valid request, there are
\* floor(width/2) * floor(height/2) intersections in the grid, every one of
\* them is Empty and every one is reached from the start cell.
C3_AllIntersectionsCarved ==
    (pc = "done" /\ ValidRequest)
        => /\ Cardinality(Intersections) = (width \div 2) * (height \div 2)
           /\ \A v \in Intersections :
                 /\ getCellType(cells, width, v.x, v.z) = Empty
                 /\ linearize(width, v.x, v.z) \in Reach({startIndex})

C3_Witness ==
    /\ pc = "done"
    /\ ValidRequest
    /\ Cardinality(Intersections) >= 6
    /\ width # height

\* C4: under fair random draws, every construction started for a request
\* with width >= 1 and height >= 1 returns a maze (it neither runs forever
\* nor raises an error).
C4_Terminates ==
    (pc = "new" /\ ValidRequest) ~> (pc = "done")

C4_Witness ==
    /\ pc = "done"
    /\ ValidRequest
    /\ unvisitedIntersections = 0
    /\ width >= 5
    /\ height >= 5

\* C5: after generation for a request with width >= 1 and height >= 1, the
\* default start (1, 1) and the default goal (width - 2, height - 2) lie
\* inside the grid and both cells are Empty.
C5_StartGoalEmptyInGrid ==
    (pc = "done" /\ ValidRequest)
        => /\ InGrid(Vec(1, 1))
           /\ InGrid(Vec(width - 2, height - 2))
           /\ InGrid(delinearize(width, startIndex))
           /\ InGrid(delinearize(width, goalIndex))
           /\ getCellType(cells, width, 1, 1) = Empty
           /\ getCellType(cells, width, width - 2, height - 2) = Empty

\* C6: for a request with width >= 1 and height >= 1 the maze's width and
\* height are odd, not below the requested value, and above it by exactly 1
\* for an even request and by 0 for an odd one.
C6_OddDimensions ==
    (pc # "new" /\ ValidRequest)
        => /\ width % 2 = 1
           /\ height % 2 = 1
           /\ width >= reqWidth
           /\ height >= reqHeight
           /\ width - reqWidth = (IF reqWidth % 2 = 0 THEN 1 ELSE 0)
           /\ height - reqHeight = (IF reqHeight % 2 = 0 THEN 1 ELSE 0)

C6_Witness ==
    /\ pc = "done"
    /\ reqWidth = 4
    /\ reqHeight = 5
    /\ width = 5

\* C7: on the grid of a constructed maze, delinearize undoes linearize for
\* every coordinate and linearize undoes delinearize for every index.
C7_RoundTrip ==
    (pc # "new" /\ width >= 1 /\ height >= 1)
        => /\ \A x \in 0 .. (width - 1) : \A z \in 0 .. (height - 1) :
                 delinearize(width, linearize(width, x, z)) = Vec(x, z)
           /\ \A i \in 0 .. (width * height - 1) :
                 linearize(width, delinearize(width, i).x,
                                  delinearize(width, i).z) = i

C7_Witness ==
    /\ pc = "done"
    /\ width = 5
    /\ height = 3

\* C8: a /generate request whose width or height is not positive is
\* rejected with an error before any grid is allocated: while the handler
\* runs, no cell array exists, the constructor does not return, and
\* currentMaze, playerInGoal and the loaded world keep their values.
C8_NonPositiveRejected ==
    [][(caller = "generate" /\ pc # "idle"
            /\ (reqWidth <= 0 \/ reqHeight <= 0))
          => /\ cells' = EmptyMap
             /\ pc' \in {"error", "idle"}
             /\ UNCHANGED <<currentMaze, playerInGoal, world>>]_vars

\* C9: a maze whose grid is 1 by 1 is returned without a carving iteration,
\* has the one cell (0, 0), that cell is Empty, and start and goal both
\* name it.
C9_SingleCell ==
    (pc # "new" /\ width = 1 /\ height = 1)
        => /\ pc \in {"outer", "done"}
           /\ DOMAIN cells = {0}
           /\ cells[0] = Empty
           /\ startIndex = goalIndex
           /\ delinearize(width, startIndex) = Vec(0, 0)

\* C10: a request with width and height in {2, 3} gives a 3 by 3 grid with
\* start = goal = (1, 1), an unvisited-intersection counter of 0 from the
\* start, no walk or replay, and (1, 1) as the only Empty cell.
C10_ThreeByThree ==
    (pc # "new" /\ reqWidth \in {2, 3} /\ reqHeight \in {2, 3})
        => /\ width = 3
           /\ height = 3
           /\ DOMAIN cells = 0 .. 8
           /\ delinearize(width, startIndex) = Vec(1, 1)
           /\ delinearize(width, goalIndex) = Vec(1, 1)
           /\ unvisitedIntersections = 0
           /\ pc \in {"outer", "done"}
           /\ EmptyCells = {linearize(width, 1, 1)}

C10_Witness ==
    /\ pc = "done"
    /\ reqWidth = 2
    /\ reqHeight = 3

\* C11: when a start cell and a goal cell inside the grid are passed to the
\* constructor, the maze it returns has both the start cell and the goal
\* cell Empty.
C11_ExplicitStartGoalEmpty ==
    (pc = "done" /\ startPos # << >> /\ goalPos # << >>)
        => /\ getCellType(cells, width, startPos[1].x, startPos[1].z) = Empty
           /\ getCellType(cells, width, goalPos[1].x, goalPos[1].z) = Empty

\* C12: each constructor call works on its own cell array and each walk on
\* its own record: while /generate builds the second maze no step changes
\* the dimensions, cells, startIndex or goalIndex of the maze generated
\* before (still held by currentMaze), the new array starts with every cell
\* Solid except the start cell whatever the old maze holds, and every walk
\* starts with an empty record.
C12_Independent ==
    [][/\ (caller = "generate" /\ pc \in {"new", "outer", "walk", "replay"})
            => currentMaze' = currentMaze
       /\ (pc = "new" /\ pc' = "outer")
            => \A i \in DOMAIN cells' :
                  cells'[i] = (IF i = startIndex' THEN Empty ELSE Solid)
       /\ (pc = "outer" /\ pc' = "walk") => path' = EmptyMap]_vars

C12_Witness ==
    /\ pc = "done"
    /\ caller = "generate"
    /\ currentMaze.width = 5
    /\ currentMaze.height = 5
    /\ width = 5
    /\ height = 5
    /\ cells # currentMaze.cells
    /\ Cardinality({i \in DOMAIN currentMaze.cells :
                        currentMaze.cells[i] = Empty}) = 7

\* C13: a maze the constructor has returned is immutable: no step of
\* startServer, onPlayerJoin, onTick, onBlockCollision or /generate changes
\* its width, height, cells, startIndex or goalIndex (a new /generate works
\* on a new object), and currentMaze changes only by the assignment of a
\* returned maze at module load or in /generate.
C13_Immutable ==
    [][/\ (pc \in {"done", "idle"} /\ pc' # "new")
            => UNCHANGED <<width, height, cells, startIndex, goalIndex>>
       /\ (currentMaze' # currentMaze)
            => /\ pc = "done"
               /\ pc' = "idle"
               /\ currentMaze' = ThisMaze
       /\ (pc = "idle" /\ pc' = "new")
            => /\ currentMaze' = currentMaze
               /\ cells' = EmptyMap]_vars

C13_Witness ==
    /\ pc = "idle"
    /\ caller = "generate"
    /\ currentMaze = ThisMaze
    /\ currentMaze.width = 5
    /\ playerInGoal
    /\ entityPos # << >>
    /\ \E k \in DOMAIN world : world[k] = BLOCK_TYPE_VISITED

LastDrawn == tape[seedPos - 1]

\* C18: in randomWalk of either revision, when the direction that is drawn
\* leads two cells away to a position outside the grid, the step is
\* discarded: the current position, the walk record, the grid and the
\* counter are unchanged and the walk goes on from the same position.
C18_OutOfBoundsDiscarded ==
    [][(/\ pc = "walk"
        /\ seedPos' = seedPos + 1
        /\ ~ InBounds(stepIn(curr, LastDrawn', 2)))
          => /\ UNCHANGED <<curr, path, cells, unvisitedIntersections>>
             /\ pc' = "walk"]_vars

\* The first walk after its first draw, which led outside and was discarded.
C18_Witness ==
    /\ pc = "walk"
    /\ variant = "index"
    /\ width = 5
    /\ height = 5
    /\ seedPos = 4
    /\ curr = start
    /\ path = EmptyMap
    /\ getCellType(cells, width, curr.x, curr.z) = Solid
    /\ ~ InBounds(stepIn(curr, LastDrawn, 2))

\* The step in which a map is loaded: the end of module load or of /generate.
LoadsMap == pc = "done" /\ pc' = "idle"

\* C15: the world MazeWorld builds from a maze has a wall block at heights
\* 1 and 2 of every Solid cell, no block at height 1 or 2 anywhere else (an
\* Empty cell has none), no block above height 2, and one floor-level block
\* (floor, start or goal marker) at height 0 of every cell of the grid.
C15_WallsAndFloor ==
    [][LoadsMap =>
        /\ \A x \in 0 .. (width - 1), z \in 0 .. (height - 1) :
              /\ <<x, 0, z>> \in DOMAIN world'
              /\ world'[<<x, 0, z>>] \in {BLOCK_TYPE_FLOOR, BLOCK_TYPE_START,
                                           BLOCK_TYPE_GOAL}
              /\ \A y \in {1, 2} :
                    (getCellType(cells, width, x, z) = Solid)
                        <=> (/\ <<x, y, z>> \in DOMAIN world'
                             /\ world'[<<x, y, z>>] = BLOCK_TYPE_WALL)
        /\ \A k \in DOMAIN world' :
              /\ k[2] \in {0, 1, 2}
              /\ k[2] \in {1, 2} =>
                    /\ world'[k] = BLOCK_TYPE_WALL
                    /\ getCellType(cells, width, k[1], k[3]) = Solid]_vars

C15_Witness ==
    /\ pc = "idle"
    /\ caller = "generate"
    /\ width = 5
    /\ height = 3
    /\ world = MazeWorld(currentMaze)
    /\ Cardinality({k \in DOMAIN world : k[2] = 0}) = 15
    /\ Cardinality({k \in DOMAIN world : world[k] = BLOCK_TYPE_WALL}) = 24

\* C16: the world loaded for a generated maze has the start marker at the
\* floor of the start cell and the goal marker at the floor of the goal
\* cell, so the world holds a goal block.
C16_StartGoalMarkers ==
    [][LoadsMap =>
        LET s == delinearize(width, startIndex)
            g == delinearize(width, goalIndex)
        IN  /\ <<s.x, 0, s.z>> \in DOMAIN world'
            /\ world'[<<s.x, 0, s.z>>] = BLOCK_TYPE_START
            /\ <<g.x, 0, g.z>> \in DOMAIN world'
            /\ world'[<<g.x, 0, g.z>>] = BLOCK_TYPE_GOAL
            /\ \E k \in DOMAIN world' : world'[k] = BLOCK_TYPE_GOAL]_vars

\* Intersections of the grid that are still Solid.
SolidIntersections ==
    {v \in Intersections : getCellType(cells, width, v.x, v.z) = Solid}

\* C17: for a request with width >= 3 and height >= 3 and the default
\* start, in every state of generateMaze the counter unvisitedIntersections
\* is the number of intersections that are still Solid and is not negative;
\* it starts at floor(width/2) * floor(height/2) - 1, and a step changes it
\* only by taking off exactly 1 while carving exactly one intersection.
C17_CounterExact ==
    /\ []((pc \in {"outer", "walk", "replay", "done"}
              /\ reqWidth >= 3 /\ reqHeight >= 3)
            => /\ unvisitedIntersections = Cardinality(SolidIntersections)
               /\ unvisitedIntersections >= 0)
    /\ [][(reqWidth >= 3 /\ reqHeight >= 3)
            => /\ (pc = "new") =>
                    unvisitedIntersections'
                        = (width' \div 2) * (height' \div 2) - 1
               /\ (pc # "new" /\ (unvisitedIntersections' # unvisitedIntersections
                                    \/ SolidIntersections' # SolidIntersections))
                    => /\ unvisitedIntersections' = unvisitedIntersections - 1
                       /\ SolidIntersections' = SolidIntersections \ {curr}
                       /\ curr \in SolidIntersections]_vars

C17_Witness ==
    /\ pc = "replay"
    /\ width = 7
    /\ height = 5
    /\ unvisitedIntersections = 2
    /\ Cardinality(SolidIntersections) = 2
    /\ getCellType(cells, width, curr.x, curr.z) = Solid

\* The key of the walk record in the revision that runs.
KeyOf(v) == IF variant = "index" THEN hash(v) ELSE keyOf(v)

\* C19: in both revisions of randomWalk, the step that lands on an already
\* carved cell records the direction out of the last Solid position before
\* the walk stops (also when it is the first step of the walk), so that
\* when the replay of the walk ends the walk's first cell is joined to the
\* carved set of the start cell.
C19_LastStepRecorded ==
    [][/\ (/\ pc = "walk"
            /\ pc' = "replay"
            /\ getCellType(cells, width, curr.x, curr.z) = Solid)
            => \E dir \in Direction :
                  /\ path' = MapSet(path, KeyOf(curr), dir)
                  /\ InBounds(stepIn(curr, dir, 2))
                  /\ getCellType(cells, width, stepIn(curr, dir, 2).x,
                                 stepIn(curr, dir, 2).z) = Empty
       /\ (pc = "replay" /\ pc' = "outer" /\ ValidRequest)
            => /\ getCellType(cells, width, start.x, start.z) = Empty
               /\ linearize(width, start.x, start.z)
                     \in Reach({startIndex})]_vars

\* A walk of the earlier revision whose first recorded step landed on a
\* carved cell, at the start of its replay.
C19_Witness ==
    /\ pc = "replay"
    /\ variant = "part_001"
    /\ width = 7
    /\ curr = start
    /\ getCellType(cells, width, start.x, start.z) = Solid
    /\ DOMAIN path = {keyOf(start)}
    /\ getCellType(cells, width, offset(start, path[keyOf(start)], 2).x,
                   offset(start, path[keyOf(start)], 2).z) = Empty

\* The cells the records lead through from the cell v on, up to the first
\* cell that has no record, lies outside the grid or was met before.
RECURSIVE Trail(_, _)
Trail(v, seen) ==
    IF \/ MapGet(path, hash(v)) = Undefined
       \/ ~ InBounds(v)
       \/ \E i \in 1 .. Len(seen) : seen[i] = v
    THEN [through |-> seen, end |-> v]
    ELSE Trail(stepIn(v, MapGet(path, hash(v)), 2), Append(seen, v))

\* C20: the replay follows a simple path.  Following the last recorded
\* direction of each cell from the walk's first cell leads through pairwise
\* distinct intersections of the grid to a cell that has no record in this
\* walk and is Empty, so it was carved before the walk began; the replay
\* stands on that path or at its end, the cells behind it are carved and
\* the cells from it on are still Solid.
C20_SimplePath ==
    (pc = "replay" /\ ValidRequest)
        => LET t == Trail(start, << >>)
               n == Len(t.through)
               at == IF curr = t.end THEN n + 1
                     ELSE CHOOSE i \in 1 .. n : t.through[i] = curr
           IN  /\ \A i, j \in 1 .. n :
                     i # j => t.through[i] # t.through[j]
               /\ \A i \in 1 .. n : t.through[i] \in Intersections
               /\ \A i \in 1 .. n : t.end # t.through[i]
               /\ t.end \in Intersections
               /\ getCellType(cells, width, t.end.x, t.end.z) = Empty
               /\ curr = t.end \/ \E i \in 1 .. n : t.through[i] = curr
               /\ \A i \in 1 .. n :
                     getCellType(cells, width, t.through[i].x,
                                 t.through[i].z)
                         = (IF i < at THEN Empty ELSE Solid)

\* A replay half way along a path of three cells from which the walk had
\* erased a loop.
C20_Witness ==
    /\ pc = "replay"
    /\ ValidRequest
    /\ Len(Trail(start, << >>).through) = 3
    /\ curr = Trail(start, << >>).through[2]
    /\ Cardinality(DOMAIN path) > 3

\* C21: for a request with width >= 1 and height >= 1, the cell every pass
\* of generateMaze's outer loop draws as the walk's first cell is an
\* intersection inside the grid (both coordinates odd) that is still Solid,
\* i.e. not yet part of the carved set.
C21_StartUncarved ==
    [][(pc = "outer" /\ pc' = "walk" /\ ValidRequest)
          => /\ InGrid(start')
             /\ start' \in Intersections
             /\ getCellType(cells, width, start'.x, start'.z) = Solid]_vars

\* C25: in the replay of either revision, every Solid cell the replay
\* stands on lies inside the grid and has a recorded direction in the walk
\* record (the lookup never gives undefined, so no TypeError is thrown), and
\* the between cell and the next cell computed from it are inside the grid.
C25_ReplayRecorded ==
    /\ pc # "error"
    /\ (pc = "replay" /\ getCellType(cells, width, curr.x, curr.z) = Solid)
          => /\ InGrid(curr)
             /\ MapGet(path, KeyOf(curr)) # Undefined
             /\ InGrid(stepIn(curr, MapGet(path, KeyOf(curr)), 1))
             /\ InGrid(stepIn(curr, MapGet(path, KeyOf(curr)), 2))

\* A replay that has carved two cells of its walk and stands on a third
\* Solid cell, at the edge of the grid.
C25_Witness ==
    /\ pc = "replay"
    /\ width = 7
    /\ curr # start
    /\ getCellType(cells, width, curr.x, curr.z) = Solid
    /\ curr.x = width - 2
    /\ getCellType(cells, width, start.x, start.z) = Empty
    /\ Cardinality(DOMAIN path) >= 3
    /\ MapGet(path, KeyOf(curr)) \in Direction

\* Cells on the outer border of the grid.
Border ==
    {v \in {Vec(x, z) : x \in 0 .. (width - 1), z \in 0 .. (height - 1)} :
        v.x = 0 \/ v.z = 0 \/ v.x = width - 1 \/ v.z = height - 1}

\* Cells of the grid with both coordinates even.
EvenEven ==
    {v \in {Vec(x, z) : x \in 0 .. (width - 1), z \in 0 .. (height - 1)} :
        v.x % 2 = 0 /\ v.z % 2 = 0}

\* C26: for a request with width >= 3 and height >= 3 and the default
\* start, in every state of generation the cell array has exactly the cells
\* of the grid, every cell of the outer border and every cell with both
\* coordinates even is Solid, every Empty cell is an intersection or a cell
\* with exactly one odd coordinate inside the border, and no step makes an
\* Empty cell Solid again.
C26_WallsStay ==
    /\ []((pc \in {"outer", "walk", "replay", "done"}
              /\ reqWidth >= 3 /\ reqHeight >= 3)
            => /\ DOMAIN cells = 0 .. (width * height - 1)
               /\ \A v \in Border \cup EvenEven :
                     getCellType(cells, width, v.x, v.z) = Solid
               /\ \A i \in EmptyCells :
                     LET v == delinearize(width, i)
                     IN  /\ InGrid(v)
                         /\ v \notin Border
                         /\ \/ v \in Intersections
                            \/ (v.x % 2 = 1) # (v.z % 2 = 1))
    /\ [][(reqWidth >= 3 /\ reqHeight >= 3)
            => \A i \in EmptyCells :
                  /\ i \in DOMAIN cells'
                  /\ cells'[i] = Empty]_vars

\* A finished 7 by 5 maze: all six intersections and five passages carved,
\* one of the passages next to the border column.
C26_Witness ==
    /\ pc = "done"
    /\ width = 7
    /\ height = 5
    /\ Cardinality(EmptyCells) = 11
    /\ getCellType(cells, width, width - 2, 2) = Empty
    /\ getCellType(cells, width, width - 1, 2) = Solid

\* C27: for a request with width >= 1 and height >= 1, a pass of the outer
\* loop whose drawn cell is already Empty changes nothing: randomWalk
\* returns at once with an empty record, the replay starts on the drawn cell
\* with that empty record, its loop body does not run, and neither step
\* changes the grid or the counter of unvisited intersections.
C27_CarvedStartNoOp ==
    /\ []((pc = "replay" /\ path = EmptyMap /\ ValidRequest)
            => /\ curr = start
               /\ getCellType(cells, width, curr.x, curr.z) = Empty)
    /\ [][(/\ pc = "walk"
           /\ getCellType(cells, width, curr.x, curr.z) = Empty
           /\ ValidRequest)
            => /\ curr = start
               /\ path = EmptyMap
               /\ pc' = "replay"
               /\ path' = EmptyMap
               /\ UNCHANGED <<cells, unvisitedIntersections, start, curr>>]_vars
    /\ [][(pc = "replay" /\ path = EmptyMap /\ ValidRequest)
            => /\ pc' = "outer"
               /\ UNCHANGED <<cells, unvisitedIntersections>>]_vars

\* The replay of a pass that drew an intersection carved by an earlier
\* walk, while other intersections are still to be carved.
C27_Witness ==
    /\ pc = "replay"
    /\ path = EmptyMap
    /\ width = 5
    /\ height = 5
    /\ curr = start
    /\ start # Vec(1, 1)
    /\ getCellType(cells, width, start.x, start.z) = Empty
    /\ unvisitedIntersections = 1

\* C28: hash is injective on coordinates in [0, 2^16): two distinct cells
\* with coordinates in that range get distinct keys, each a signed 32-bit
\* number, so a walk record that is given a direction for each of the two
\* cells holds two entries, and the second entry leaves the first as it was.
C28_HashInjective ==
    /\ [](/\ start.x \in 0 .. 65535 /\ start.z \in 0 .. 65535
          /\ curr.x \in 0 .. 65535 /\ curr.z \in 0 .. 65535
          /\ hash(start) \in (-2147483647 - 1) .. 2147483647
          /\ (start # curr) =>
                /\ hash(start) # hash(curr)
                /\ pc = "hashed" => Cardinality(DOMAIN path) = 2)
    /\ [][(pc = "hash2" /\ start # curr)
            => MapGet(path', hash(start)) = MapGet(path, hash(start))]_vars

\* Two cells that differ by the exchange of their coordinates, one of them
\* with a negative key, each with its own direction in the record.
C28_Witness ==
    /\ pc = "hashed"
    /\ start = Vec(32768, 1)
    /\ curr = Vec(1, 32768)
    /\ hash(start) < 0
    /\ hash(curr) > 0
    /\ MapGet(path, hash(start)) = Up
    /\ MapGet(path, hash(curr)) = Down

\* The step that ends the /generate handler after the constructor returned.
GenerateLoads == LoadsMap /\ caller = "generate"

\* C22: the /generate handler despawns every chunk of the previous world
\* before it loads the new map: at the step that ends the handler,
\* currentMaze is the maze just built and the world is exactly the
\* MazeWorld built from it, so no block of the previous world is left, and
\* no block is a visited marker.
C22_OldWorldGone ==
    [][GenerateLoads =>
        /\ currentMaze' = ThisMaze
        /\ world' = MazeWorld(ThisMaze)
        /\ \A k \in DOMAIN world' : world'[k] # BLOCK_TYPE_VISITED]_vars

\* The world after a /generate that replaced the 5 by 5 maze of module load
\* by a 3 by 3 maze: 9 floor-level blocks and 16 wall blocks, nothing else.
C22_Witness ==
    /\ pc = "idle"
    /\ caller = "generate"
    /\ width = 3
    /\ height = 3
    /\ currentMaze = ThisMaze
    /\ world = MazeWorld(currentMaze)
    /\ Cardinality(DOMAIN world) = 25
    /\ \A k \in DOMAIN world : k[1] \in 0 .. 2 /\ k[3] \in 0 .. 2

\* C24: onTick sets the visited marker under a player only when the
\* player's cell is neither the start cell nor the goal cell of the current
\* maze: no step puts a visited marker at the floor of the start cell or of
\* the goal cell, so the start and goal markers are never overwritten.
C24_MarkersKept ==
    [][\A k \in DOMAIN world' :
          (/\ world'[k] = BLOCK_TYPE_VISITED
           /\ (k \notin DOMAIN world \/ world[k] # BLOCK_TYPE_VISITED))
            => LET currentStart == delinearize(currentMaze.width,
                                               currentMaze.startIndex)
                   currentGoal == delinearize(currentMaze.width,
                                              currentMaze.goalIndex)
               IN  /\ k # <<currentStart.x, 0, currentStart.z>>
                   /\ k # <<currentGoal.x, 0, currentGoal.z>>]_vars

\* C23: whatever the players do, the congratulation message is sent at
\* most once between two /generate commands.  It is sent only by a step
\* that sets playerInGoal, to a connected player, when no message was sent
\* since the last command; while playerInGoal holds no collision sends it;
\* only the end of a /generate handler resets playerInGoal, and it does;
\* and a started collision with the goal block while playerInGoal is false
\* sends the message and sets playerInGoal.
C23_CongratulatedOnce ==
    /\ [](Len(congratulated) <= 1)
    /\ [][/\ (congratulated' # congratulated)
               => \/ /\ pc = "idle"
                     /\ pc' = "new"
                     /\ congratulated' = << >>
                  \/ /\ ~ playerInGoal
                     /\ playerInGoal'
                     /\ congratulated = << >>
                     /\ Len(congratulated') = 1
                     /\ congratulated'[1] \in DOMAIN entityPos
          /\ playerInGoal
               => (congratulated' = congratulated \/ pc' = "new")
          /\ (playerInGoal /\ ~ playerInGoal') => GenerateLoads
          /\ GenerateLoads => (~ playerInGoal' /\ congratulated' = << >>)
          /\ (/\ ~ playerInGoal
              /\ \E p \in DOMAIN entityPos :
                    OnBlockCollision(p, BLOCK_TYPE_GOAL, TRUE))
               => /\ playerInGoal'
                  /\ Len(congratulated') = Len(congratulated) + 1]_vars

\* Two players are connected; after the /generate command of player 1 for
\* a 3 by 5 maze player 2 has reached the goal and was sent the message.
C23_Witness ==
    /\ pc = "idle"
    /\ caller = "generate"
    /\ cmdPlayer = 1
    /\ DOMAIN entityPos = {1, 2}
    /\ currentMaze.width = 3
    /\ currentMaze.height = 5
    /\ playerInGoal
    /\ congratulated = <<2>>

====
